---- MODULE Spec2Model ----
(***************************************************************************)
(* Model of the Todo API of todo_app_backend/src/api/main.py: one SQLite   *)
(* table "todos" behind six FastAPI handlers and the import-time init_db.  *)
(*                                                                         *)
(* Spec        requests served one after the other (each handler is one    *)
(*             action), with restarts of the process (init_db) in between; *)
(*             records the request served last and its response.           *)
(* SpecCount   the same actions, recording the ids created, the ids        *)
(*             deleted and the number of deletes and seedings.             *)
(* SpecToggle  the same actions, recording per id the toggles made on it.  *)
(* SpecConc    toggle requests in flight together, each split at the       *)
(*             statements it sends to the database.                        *)
(***************************************************************************)
EXTENDS Integers, Sequences, FiniteSets, TLC

(* ---------------------------------------------------------------- bounds *)

\* Largest row id the model lets create_todo assign.
MaxId == 3

\* Number of successful POST /todos counted in SpecCount.
MaxCreates == 2

\* Number of startups counted in SpecCount that seed the table.
MaxSeedings == 2

\* Number of toggle requests in SpecConc.
NumRequests == 2

(* ------------------------------------------------------------ data model *)

\* Optional[str]: None is the empty sequence, a string s is <<s>>.
None == <<>>

Some(s) == <<s>>

\* Path parameter todo_id: int. MaxId + 1 is an id no row ever has.
PathIds == 1..(MaxId + 1)

\* TodoCreate bodies that pass validation: title, optional description.
CreatePayloads ==
    [title : {"Buy milk"}, description : {None, Some(""), Some("2%")}]

\* TodoUpdate bodies that pass validation: title, optional description,
\* completed.
UpdatePayloads ==
    [title : {"Buy milk"}, description : {None, Some(""), Some("2%")},
     completed : BOOLEAN]

\* A row of table todos without its primary key.
TodoORM(title, description, completed) ==
    [title |-> title, description |-> description, completed |-> completed]

\* TodoOut.model_validate(todo): the row with its id.
TodoOut(id, row) ==
    [id |-> id, title |-> row.title, description |-> row.description,
     completed |-> row.completed]

\* The table with no rows.
EmptyTable == [i \in {} |-> TodoORM("", None, FALSE)]

SetMax(S) == CHOOSE m \in S : \A x \in S : x <= m

\* id INTEGER NOT NULL PRIMARY KEY, as SQLAlchemy emits it for SQLite (the
\* AUTOINCREMENT keyword is not emitted without sqlite_autoincrement): the
\* row id SQLite gives an INSERT is one more than the largest id present,
\* and 1 in an empty table.
NextRowId(tbl) ==
    IF DOMAIN tbl = {} THEN 1 ELSE SetMax(DOMAIN tbl) + 1

\* db.add(todo); db.commit() of a new object: INSERT.
Insert(tbl, row) ==
    LET id == NextRowId(tbl)
    IN  [i \in DOMAIN tbl \cup {id} |-> IF i = id THEN row ELSE tbl[i]]

\* db.add(todo); db.commit() of a loaded object: UPDATE ... WHERE id = ?.
Update(tbl, id, row) == [tbl EXCEPT ![id] = row]

\* db.delete(todo); db.commit(): DELETE ... WHERE id = ?.
Delete(tbl, id) == [i \in DOMAIN tbl \ {id} |-> tbl[i]]

\* The two sample rows of init_db.
samples ==
    << TodoORM("Buy groceries", Some("Milk, Bread, Eggs"), FALSE),
       TodoORM("Read a book", Some("Finish reading 'Atomic Habits'"), TRUE) >>

\* Mutant of init_db: the emptiness test off by one (count <= 1).
init_db_count_le_1(tbl) ==
    IF Cardinality(DOMAIN tbl) <= 1
    THEN Insert(Insert(tbl, samples[1]), samples[2])
    ELSE tbl

\* init_db: seed the samples when the table holds no row.
init_db(tbl) ==
    IF Cardinality(DOMAIN tbl) = 0
    THEN Insert(Insert(tbl, samples[1]), samples[2])
    ELSE tbl

(* -------------------------------------------------------------- responses *)

HTTP_200_OK == 200

HTTP_201_CREATED == 201

HTTP_204_NO_CONTENT == 204

HTTP_404_NOT_FOUND == 404

\* A response: the status, the detail of an HTTPException ("" without one)
\* and the TodoOut objects of the body.
Response(status, detail, body) ==
    [status |-> status, detail |-> detail, body |-> body]

NotFound == Response(HTTP_404_NOT_FOUND, "Todo not found", <<>>)

\* get_todo_or_404: the row as <<row>>, or <<>> where the code raises
\* HTTPException(404).
get_todo_or_404(tbl, todo_id) ==
    IF todo_id \in DOMAIN tbl THEN <<tbl[todo_id]>> ELSE <<>>

\* Mutant of order_by_id: ORDER BY id DESC.
RECURSIVE order_by_id_desc(_)
order_by_id_desc(S) ==
    IF S = {} THEN <<>>
    ELSE LET m == SetMax(S) IN <<m>> \o order_by_id_desc(S \ {m})

\* The ids of tbl in ascending order: ORDER BY id ASC.
RECURSIVE order_by_id(_)
order_by_id(S) ==
    IF S = {} THEN <<>>
    ELSE LET m == SetMax(S) IN Append(order_by_id(S \ {m}), m)

\* payload.description or None
OrNone(description) ==
    IF description = None \/ description = Some("") THEN None ELSE description

\* db.refresh(todo); TodoOut.model_validate(todo): the row is read again
\* from the table and returned.
refresh(tbl, todo_id) ==
    Response(HTTP_200_OK, "", <<TodoOut(todo_id, tbl[todo_id])>>)

(* --------------------------------------------------------------- handlers *)
\* Each handler maps the table and its arguments to the table it commits
\* and the response it returns.

Result(tbl, resp) == [table |-> tbl, resp |-> resp]

list_todos(tbl) ==
    LET ids == order_by_id(DOMAIN tbl)
    IN  Result(tbl, Response(HTTP_200_OK, "",
                             [k \in 1..Len(ids) |-> TodoOut(ids[k], tbl[ids[k]])]))

get_todo(tbl, todo_id) ==
    LET todo == get_todo_or_404(tbl, todo_id)
    IN  IF todo = <<>> THEN Result(tbl, NotFound)
        ELSE Result(tbl, Response(HTTP_200_OK, "", <<TodoOut(todo_id, todo[1])>>))

create_todo(tbl, payload) ==
    LET todo == TodoORM(payload.title, OrNone(payload.description), FALSE)
        id   == NextRowId(tbl)
        tbl2 == Insert(tbl, todo)
    IN  Result(tbl2, Response(HTTP_201_CREATED, "", <<TodoOut(id, tbl2[id])>>))

\* Mutant of update_todo: a merge, the description kept when the payload
\* has none.
update_todo_merge(tbl, todo_id, payload) ==
    LET todo == get_todo_or_404(tbl, todo_id)
        tbl2 == Update(tbl, todo_id,
                       TodoORM(payload.title,
                               IF payload.description = None
                               THEN todo[1].description
                               ELSE payload.description,
                               payload.completed))
    IN  IF todo = <<>> THEN Result(tbl, NotFound)
        ELSE Result(tbl2, refresh(tbl2, todo_id))

update_todo(tbl, todo_id, payload) ==
    LET todo == get_todo_or_404(tbl, todo_id)
        tbl2 == Update(tbl, todo_id,
                       TodoORM(payload.title, payload.description,
                               payload.completed))
    IN  IF todo = <<>> THEN Result(tbl, NotFound)
        ELSE Result(tbl2, refresh(tbl2, todo_id))

\* Mutant of toggle_commit: completed is set, not negated.
toggle_commit_set(tbl, todo_id, todo) ==
    [tbl EXCEPT ![todo_id].completed = TRUE]

\* Mutant of toggle_commit: the negation is made by the database on the
\* stored value, UPDATE todos SET completed = NOT completed WHERE id = ?.
toggle_commit_in_sql(tbl, todo_id, todo) ==
    [tbl EXCEPT ![todo_id].completed = ~tbl[todo_id].completed]

\* toggle_todo, lines 223-225: todo.completed = not todo.completed on the
\* loaded object, then db.add(todo); db.commit(). The flush writes the one
\* attribute that changed: UPDATE todos SET completed = ? WHERE id = ?,
\* the value being the negation of what the session loaded.
toggle_commit(tbl, todo_id, todo) ==
    [tbl EXCEPT ![todo_id].completed = ~todo.completed]

toggle_todo(tbl, todo_id) ==
    LET todo == get_todo_or_404(tbl, todo_id)
        tbl2 == toggle_commit(tbl, todo_id, todo[1])
    IN  IF todo = <<>> THEN Result(tbl, NotFound)
        ELSE Result(tbl2, refresh(tbl2, todo_id))

\* Mutant of delete_todo: no lookup, a missing id is deleted in silence.
delete_todo_silent(tbl, todo_id) ==
    Result(Delete(tbl, todo_id), Response(HTTP_204_NO_CONTENT, "", <<>>))

delete_todo(tbl, todo_id) ==
    LET todo == get_todo_or_404(tbl, todo_id)
    IN  IF todo = <<>> THEN Result(tbl, NotFound)
        ELSE Result(Delete(tbl, todo_id),
                    Response(HTTP_204_NO_CONTENT, "", <<>>))

(* ------------------------------------------------------------------ state *)

VARIABLES
    table,      \* the rows of table todos: id -> row
    last,       \* Spec: the request served last and its response
    created,    \* SpecCount: the ids POST /todos has returned, in order
    deleted,    \* SpecCount: the ids DELETE has removed so far
    nDeletes,   \* SpecCount: successful DELETE /todos/{id} so far
    nSeedings,  \* SpecCount: startups that seeded the samples so far
    toggles,    \* SpecToggle: id -> the toggles made on it since any other write
    reqs        \* SpecConc: the requests in flight

vars == <<table, last, created, deleted, nDeletes, nSeedings, toggles, reqs>>

\* A request with the response it got. id is 0 where the route has no id,
\* payload is <<>> where it has no body.
Request(op, id, payload, resp) ==
    [op |-> op, id |-> id, payload |-> payload, resp |-> resp]

NoResponse == Response(0, "", <<>>)

NoToggles == [i \in 1..MaxId |-> <<>>]

\* The table of a fresh database file after init_db.
SeededTable == init_db(EmptyTable)

\* A toggle request of SpecConc: where it is in toggle_todo, its todo_id,
\* the row its session loaded (<<>> before that) and its response.
ToggleRequest(pc, id, todo, resp) ==
    [pc |-> pc, id |-> id, todo |-> todo, resp |-> resp]

IdleRequests ==
    [r \in 1..NumRequests |-> ToggleRequest("idle", 0, <<>>, NoResponse)]

\* The module is imported on a fresh database file: init_db() at line 255.
Init ==
    /\ table = SeededTable
    /\ last = Request("startup", 0, <<>>, NoResponse)
    /\ created = <<>>
    /\ deleted = {}
    /\ nDeletes = 0
    /\ nSeedings = 1
    /\ toggles = NoToggles
    /\ reqs = IdleRequests

(* ------------------------------------------------------------- observers *)
\* What a specification records of a served request; table is the table
\* before the request and table' the table after it.

Deleted(req) ==
    req.op = "delete" /\ req.resp.status = HTTP_204_NO_CONTENT

\* Spec: the last request.
ObserveLast(req) ==
    /\ last' = req
    /\ UNCHANGED <<created, deleted, nDeletes, nSeedings, toggles, reqs>>

\* SpecCount: the creates, deletes and seedings so far, creates and seedings
\* capped. A seeding is a startup that changes the table.
ObserveCount(req) ==
    /\ req.op = "create" => Len(created) < MaxCreates
    /\ (req.op = "startup" /\ table' # table) => nSeedings < MaxSeedings
    /\ created' = IF req.op = "create"
                  THEN Append(created, req.resp.body[1].id) ELSE created
    /\ deleted' = IF Deleted(req) THEN deleted \cup {req.id} ELSE deleted
    /\ nDeletes' = IF Deleted(req) THEN nDeletes + 1 ELSE nDeletes
    /\ nSeedings' = IF req.op = "startup" /\ table' # table
                    THEN nSeedings + 1 ELSE nSeedings
    /\ UNCHANGED <<last, toggles, reqs>>

\* SpecToggle: per id, the last two successful toggles on it, each with the
\* row it found and the object it returned. An update or a delete of the
\* id, and any request that inserts or removes the id, empties the record.
ObserveToggle(req) ==
    /\ toggles' =
         [i \in 1..MaxId |->
            IF req.op = "toggle" /\ req.id = i
                 /\ req.resp.status = HTTP_200_OK
            THEN LET t == [before |-> TodoOut(i, table[i]),
                           after  |-> req.resp.body[1]]
                 IN  IF toggles[i] = <<>> THEN <<t>>
                     ELSE <<toggles[i][Len(toggles[i])], t>>
            ELSE IF \/ req.op \in {"update", "delete"} /\ req.id = i
                    \/ (i \in DOMAIN table) # (i \in DOMAIN table')
            THEN <<>>
            ELSE toggles[i]]
    /\ UNCHANGED <<last, created, deleted, nDeletes, nSeedings, reqs>>

\* The observer of the specification named.
Observe(observer, req) ==
    CASE observer = "Spec"       -> ObserveLast(req)
      [] observer = "SpecCount"  -> ObserveCount(req)
      [] observer = "SpecToggle" -> ObserveToggle(req)

(* ---------------------------------------------------------------- actions *)
\* One action per route, and the restart of the process; observer names
\* the specification whose observer records the request.

\* The process is started again on the same database file.
Startup(observer) ==
    /\ table' = init_db(table)
    /\ Observe(observer, Request("startup", 0, <<>>, NoResponse))

ListTodos(observer) ==
    LET r == list_todos(table)
    IN  /\ table' = r.table
        /\ Observe(observer, Request("list", 0, <<>>, r.resp))

GetTodo(todo_id, observer) ==
    LET r == get_todo(table, todo_id)
    IN  /\ table' = r.table
        /\ Observe(observer, Request("get", todo_id, <<>>, r.resp))

CreateTodo(payload, observer) ==
    LET r == create_todo(table, payload)
    IN  /\ NextRowId(table) <= MaxId
        /\ table' = r.table
        /\ Observe(observer, Request("create", 0, <<payload>>, r.resp))

UpdateTodo(todo_id, payload, observer) ==
    LET r == update_todo(table, todo_id, payload)
    IN  /\ table' = r.table
        /\ Observe(observer, Request("update", todo_id, <<payload>>, r.resp))

ToggleTodo(todo_id, observer) ==
    LET r == toggle_todo(table, todo_id)
    IN  /\ table' = r.table
        /\ Observe(observer, Request("toggle", todo_id, <<>>, r.resp))

DeleteTodo(todo_id, observer) ==
    LET r == delete_todo(table, todo_id)
    IN  /\ table' = r.table
        /\ Observe(observer, Request("delete", todo_id, <<>>, r.resp))

Next ==
    \/ Startup("Spec")
    \/ ListTodos("Spec")
    \/ \E id \in PathIds : GetTodo(id, "Spec")
    \/ \E p \in CreatePayloads : CreateTodo(p, "Spec")
    \/ \E id \in PathIds, p \in UpdatePayloads : UpdateTodo(id, p, "Spec")
    \/ \E id \in PathIds : ToggleTodo(id, "Spec")
    \/ \E id \in PathIds : DeleteTodo(id, "Spec")

Spec == Init /\ [][Next]_vars

NextCount ==
    \/ Startup("SpecCount")
    \/ ListTodos("SpecCount")
    \/ \E id \in PathIds : GetTodo(id, "SpecCount")
    \/ \E p \in CreatePayloads : CreateTodo(p, "SpecCount")
    \/ \E id \in PathIds, p \in UpdatePayloads : UpdateTodo(id, p, "SpecCount")
    \/ \E id \in PathIds : ToggleTodo(id, "SpecCount")
    \/ \E id \in PathIds : DeleteTodo(id, "SpecCount")

SpecCount == Init /\ [][NextCount]_vars

NextToggle ==
    \/ Startup("SpecToggle")
    \/ ListTodos("SpecToggle")
    \/ \E id \in PathIds : GetTodo(id, "SpecToggle")
    \/ \E p \in CreatePayloads : CreateTodo(p, "SpecToggle")
    \/ \E id \in PathIds, p \in UpdatePayloads : UpdateTodo(id, p, "SpecToggle")
    \/ \E id \in PathIds : ToggleTodo(id, "SpecToggle")
    \/ \E id \in PathIds : DeleteTodo(id, "SpecToggle")

SpecToggle == Init /\ [][NextToggle]_vars

(* ------------------------------------------------ requests in flight *)
\* FastAPI runs the handlers, plain functions, on a pool of threads, and
\* every request opens a session of its own (SessionLocal(), a connection
\* of its own): the statements of two requests interleave. The driver
\* opens no transaction before a SELECT, so the row a session loaded is
\* not locked; UPDATE and COMMIT take the database's write lock and act
\* as one step.

\* toggle_todo, line 222: get_todo_or_404 loads the row or raises 404.
ToggleLoad(r, todo_id) ==
    LET todo == get_todo_or_404(table, todo_id)
    IN  /\ reqs[r].pc = "idle"
        /\ reqs' = [reqs EXCEPT ![r] =
                      IF todo = <<>>
                      THEN ToggleRequest("done", todo_id, <<>>, NotFound)
                      ELSE ToggleRequest("loaded", todo_id, todo, NoResponse)]
        /\ UNCHANGED <<table, last, created, deleted, nDeletes, nSeedings,
                       toggles>>

\* toggle_todo, lines 223-225: negate the loaded value, flush and commit.
ToggleCommit(r) ==
    /\ reqs[r].pc = "loaded"
    /\ table' = toggle_commit(table, reqs[r].id, reqs[r].todo[1])
    /\ reqs' = [reqs EXCEPT ![r].pc = "committed"]
    /\ UNCHANGED <<last, created, deleted, nDeletes, nSeedings, toggles>>

\* toggle_todo, lines 226-227: read the row again and return it.
ToggleRefresh(r) ==
    /\ reqs[r].pc = "committed"
    /\ reqs' = [reqs EXCEPT ![r].pc = "done",
                            ![r].resp = refresh(table, reqs[r].id)]
    /\ UNCHANGED <<table, last, created, deleted, nDeletes, nSeedings,
                   toggles>>

NextConc ==
    \/ \E r \in 1..NumRequests, id \in PathIds : ToggleLoad(r, id)
    \/ \E r \in 1..NumRequests : ToggleCommit(r)
    \/ \E r \in 1..NumRequests : ToggleRefresh(r)

SpecConc == Init /\ [][NextConc]_vars

(* ------------------------------------------------------------- claims *)

\* The objects GET /todos returns in the current state.
Listed == list_todos(table).resp.body

ListedIds == {Listed[k].id : k \in 1..Len(Listed)}

\* The object GET /todos/{id} returns in the current state, as <<object>>.
Fetched(id) == get_todo(table, id).resp.body

OkStatus(req) == req.resp.status \in {HTTP_200_OK, HTTP_201_CREATED}

\* C1: the id a successful create returns differs from the id of every todo
\* in the store before it and from every id an earlier create returned, ids
\* of deleted todos included. (SpecCount; the code reuses the id of a
\* deleted last row.)
C1_CreatedIdNeverSeen ==
    [][Len(created') > Len(created) =>
         LET id == created'[Len(created')]
         IN  /\ id \notin DOMAIN table
             /\ \A k \in 1..Len(created) : created[k] # id]_vars

\* C2 as stated: after N successful creates and M successful deletes, list
\* returns exactly N - M items in strictly ascending id order. (SpecCount)
C2_ListCountOriginal ==
    /\ Len(Listed) = Len(created) - nDeletes
    /\ \A k \in 1..(Len(Listed) - 1) : Listed[k].id < Listed[k + 1].id

\* C2 as amended: after N successful creates, M successful deletes and S
\* seedings by init_db (two rows each), list returns exactly 2S + N - M
\* items, the rows of the table, in strictly ascending id order.
\* (SpecCount)
C2_ListCount ==
    /\ Len(Listed) = Len(samples) * nSeedings + Len(created) - nDeletes
    /\ \A k \in 1..(Len(Listed) - 1) : Listed[k].id < Listed[k + 1].id
    /\ \A k \in 1..Len(Listed) :
         /\ Listed[k].id \in DOMAIN table
         /\ Listed[k] = TodoOut(Listed[k].id, table[Listed[k].id])

\* C2 witness: creates and deletes have happened and list has an order to
\* keep.
C2_Witness ==
    /\ Len(created) = MaxCreates
    /\ nDeletes >= 1
    /\ Len(Listed) >= 2

\* C3: get, replace, toggle and delete of an id that is not in the store
\* yield 404 "Todo not found" and leave the store as it was. (Spec)
C3_NotFound ==
    [][(last'.op \in {"get", "update", "toggle", "delete"}
          /\ last'.id \notin DOMAIN table)
       => (last'.resp = NotFound /\ table' = table)]_vars

\* C3 witness: a delete of an id that is no longer in the store, below the
\* largest id present, was answered 404.
C3_Witness ==
    /\ last.op = "delete"
    /\ last.resp.status = HTTP_404_NOT_FOUND
    /\ last.id \notin DOMAIN table
    /\ \E i \in DOMAIN table : i > last.id

\* C4: after a successful replace, get-by-id returns the id unchanged and
\* title, description and completed as the payload gave them (description
\* null when the payload has none), and replace returned the same object.
\* (Spec)
C4_ReplaceOverwrites ==
    (last.op = "update" /\ OkStatus(last)) =>
        LET p == last.payload[1]
        IN  /\ Fetched(last.id) =
                 << [id |-> last.id, title |-> p.title,
                     description |-> p.description,
                     completed |-> p.completed] >>
            /\ last.resp.body = Fetched(last.id)

\* C4 witness: a sample row, which has a description, was replaced by a
\* payload without one.
C4_Witness ==
    /\ last.op = "update"
    /\ OkStatus(last)
    /\ last.id = 1
    /\ last.payload[1].description = None
    /\ last.payload[1].completed

\* C5: of two successive toggles of an id with no other write of that id
\* in between, the first returns the negation of completed and the second
\* the original value, which is then the stored one; id, title and
\* description are the same before, between and after. (SpecToggle)
C5_ToggleInvolution ==
    \A i \in 1..MaxId :
        Len(toggles[i]) = 2 =>
            LET first  == toggles[i][1]
                second == toggles[i][2]
                Same(x, y) == /\ x.id = y.id
                              /\ x.title = y.title
                              /\ x.description = y.description
            IN  /\ first.after.completed = ~first.before.completed
                /\ second.before = first.after
                /\ second.after.completed = first.before.completed
                /\ Same(first.before, first.after)
                /\ Same(first.before, second.after)
                /\ i \in DOMAIN table
                /\ TodoOut(i, table[i]) = first.before

\* C5 witness: an id was toggled twice in a row from completed = TRUE,
\* and another id has been toggled as well.
C5_Witness ==
    \E i \in 1..MaxId :
        /\ Len(toggles[i]) = 2
        /\ toggles[i][1].before.completed
        /\ \E j \in 1..MaxId : j # i /\ Len(toggles[j]) = 1

\* C6: create returns completed = false with the payload's title and
\* description (null when it has none), and a get-by-id of the returned id
\* right after returns an equal object. (Spec; fails on an empty
\* description, see C7.)
C6_CreateReturnsPayload ==
    (last.op = "create" /\ OkStatus(last)) =>
        LET p   == last.payload[1]
            out == last.resp.body[1]
        IN  /\ out.completed = FALSE
            /\ out.title = p.title
            /\ out.description = p.description
            /\ Fetched(out.id) = <<out>>

\* C7: create and replace store and return description "" as "" and a
\* missing description as null. (Spec; create turns "" into null.)
C7_EmptyDescriptionKept ==
    (last.op \in {"create", "update"} /\ OkStatus(last)) =>
        LET p   == last.payload[1]
            out == last.resp.body[1]
        IN  p.description \in {None, Some("")} =>
                /\ out.description = p.description
                /\ table[out.id].description = p.description

\* C8: an id that was deleted stays removed: it is not in list, and get,
\* replace, toggle and delete of it yield NotFound. (SpecCount; fails when
\* the id is given to a new row, see C1.)
C8_DeletedStaysDeleted ==
    \A i \in deleted :
        /\ i \notin ListedIds
        /\ get_todo(table, i).resp = NotFound
        /\ \A p \in UpdatePayloads : update_todo(table, i, p).resp = NotFound
        /\ toggle_todo(table, i).resp = NotFound
        /\ delete_todo(table, i).resp = NotFound

\* Requests a and b are the two toggles of id i, both answered with a row.
TwoToggles(a, b, i) ==
    /\ a # b
    /\ reqs[a].id = i /\ reqs[b].id = i
    /\ reqs[a].pc = "done" /\ reqs[b].pc = "done"
    /\ reqs[a].resp.status = HTTP_200_OK
    /\ reqs[b].resp.status = HTTP_200_OK
    /\ \A c \in 1..NumRequests \ {a, b} : reqs[c].id # i

\* C9 as stated: two toggle requests on the same id never read the same
\* stored value; after both complete the stored completed is the original
\* one and the two responses carry opposite values. (SpecConc)
C9_ToggleAtomicOriginal ==
    \A a, b \in 1..NumRequests, i \in DOMAIN table :
        TwoToggles(a, b, i) =>
            /\ reqs[a].todo[1].completed # reqs[b].todo[1].completed
            /\ table[i].completed = SeededTable[i].completed
            /\ reqs[a].resp.body[1].completed # reqs[b].resp.body[1].completed

\* C9 as amended: every toggle writes the negation of the value it read,
\* and the read and the write are two steps. After two toggle requests on
\* the same id complete, no other request having written the row, the
\* stored completed is the original value exactly
\* when the two read different values (one read after the other's commit);
\* when both read the same value it is the negation of the original, and
\* both responses carry that negation. (SpecConc)
C9_ToggleLostUpdate ==
    \A a, b \in 1..NumRequests, i \in DOMAIN table :
        TwoToggles(a, b, i) =>
            LET orig  == SeededTable[i].completed
                readA == reqs[a].todo[1].completed
                readB == reqs[b].todo[1].completed
            IN  /\ orig \in {readA, readB}
                /\ readA # readB => table[i].completed = orig
                /\ readA = readB =>
                     /\ table[i].completed = ~orig
                     /\ reqs[a].resp.body[1].completed = ~orig
                     /\ reqs[b].resp.body[1].completed = ~orig

\* C9 witness: two toggles of one id have completed after reading the same
\* value.
C9_Witness ==
    \E a, b \in 1..NumRequests, i \in DOMAIN table :
        /\ TwoToggles(a, b, i)
        /\ reqs[a].todo[1].completed = reqs[b].todo[1].completed

\* C10 as stated, its conclusion: seeding happens only on the first run.
\* (SpecCount)
C10_SeedsOnlyOnFirstRun == nSeedings = 1

\* C10 as amended: a startup leaves a table that holds a row unchanged, and
\* a startup that changes the table found it empty and leaves exactly the
\* two samples in it, one not completed and one completed; it may be any
\* startup, not the first only. (SpecCount)
C10_SeedsOnlyWhenEmpty ==
    [][/\ table # EmptyTable => init_db(table) = table
       /\ nSeedings' # nSeedings =>
            /\ table = EmptyTable
            /\ Cardinality(DOMAIN table') = 2
            /\ \E i, j \in DOMAIN table' :
                 /\ table'[i] = samples[1] /\ ~table'[i].completed
                 /\ table'[j] = samples[2] /\ table'[j].completed]_vars

\* C10 witness: the samples were seeded a second time, after a create and
\* the deletion of every row.
C10_Witness ==
    /\ nSeedings = 2
    /\ Len(created) >= 1
    /\ nDeletes >= 3
    /\ table = SeededTable

====
